---- MODULE Spec2Model ----
(***************************************************************************)
(* markdownd: the per-request pipeline of Server.ServeHTTP (src/main.go).   *)
(*                                                                          *)
(* Strings are sequences of one-character strings, so that the substring,   *)
(* prefix and suffix tests of the handler are computed as Go computes them. *)
(* The filesystem is a map from clean absolute paths to nodes (directory,   *)
(* regular file, symbolic link).  One request is in flight at a time; each  *)
(* block of the handler between two returns is one step.  The filesystem    *)
(* may change at any moment, also between two steps of one request.         *)
(***************************************************************************)
EXTENDS Integers, Sequences, FiniteSets, TLC

VARIABLES
    fs,        \* the filesystem: clean absolute path -> node
    pc,        \* position of the handler
    method,    \* r.Method
    urlPath,   \* r.URL.Path
    rawQuery,  \* r.URL.RawQuery
    reqHeader, \* the request header http.ServeFile looks at, "" for none
    abs,       \* the local abs of ServeHTTP ("" before line 167)
    b,         \* the bytes read at line 239
    header,    \* w.Header() entries added by the handler itself
    resp,      \* the response written to the client
    cause,     \* which rejection branch answered (the reason logged)
    branch,    \* which dispatch branch answered
    trace,     \* the path operations of this request, in order
    changed    \* the filesystem changed while this request was being served

vars == <<fs, pc, method, urlPath, rawQuery, reqHeader, abs, b, header, resp,
          cause, branch, trace, changed>>

----------------------------------------------------------------------------
(* Bounds of the model *)

\* longest URL path, in segments
MaxSegs == 3
\* symbolic links followed in one resolution before it fails
MaxLinks == 3

----------------------------------------------------------------------------
(* package strings *)

HasPrefix(s, prefix) ==
    Len(s) >= Len(prefix) /\ SubSeq(s, 1, Len(prefix)) = prefix

HasSuffix(s, suffix) ==
    Len(s) >= Len(suffix)
    /\ SubSeq(s, Len(s) - Len(suffix) + 1, Len(s)) = suffix

Contains(s, substr) ==
    \E i \in 0..(Len(s) - Len(substr)) :
        SubSeq(s, i + 1, i + Len(substr)) = substr

TrimSuffix(s, suffix) ==
    IF HasSuffix(s, suffix) THEN SubSeq(s, 1, Len(s) - Len(suffix)) ELSE s

----------------------------------------------------------------------------
(* Literals of the source *)

Slash       == <<"/">>
Dot         == <<".">>
DotDot      == <<".", ".">>
DotDotSlash == <<".", ".", "/">>
ExtHtml     == <<".", "h", "t", "m", "l">>
ExtMd       == <<".", "m", "d">>
IndexMd     == <<"i", "n", "d", "e", "x", ".", "m", "d">>
indexPage   == IndexMd
RawWord     == <<"r", "a", "w">>
TextHtml    == <<"text/html">>
TextPlain   == <<"text/plain">>
serverheader == "markdownd/0.0.6"

----------------------------------------------------------------------------
(* package path/filepath (Unix) *)

RECURSIVE SplitAcc(_, _, _, _)
SplitAcc(p, i, cur, out) ==
    IF i > Len(p) THEN Append(out, cur)
    ELSE IF p[i] = "/" THEN SplitAcc(p, i + 1, <<>>, Append(out, cur))
    ELSE SplitAcc(p, i + 1, Append(cur, p[i]), out)

\* the segments of p between its slashes (empty segments included)
Split(p) == SplitAcc(p, 1, <<>>, <<>>)

RECURSIVE JoinSegs(_)
JoinSegs(segs) ==
    IF segs = <<>> THEN <<>>
    ELSE IF Len(segs) = 1 THEN segs[1]
    ELSE segs[1] \o Slash \o JoinSegs(Tail(segs))

\* the absolute path naming the segment list
PathOf(segs) == Slash \o JoinSegs(segs)

IsAbs(p) == HasPrefix(p, Slash)

RECURSIVE CleanSegs(_, _, _)
CleanSegs(rest, out, rooted) ==
    IF rest = <<>> THEN out
    ELSE LET s == Head(rest)
             t == Tail(rest)
         IN  IF s = <<>> \/ s = Dot THEN CleanSegs(t, out, rooted)
             ELSE IF s = DotDot
             THEN IF out # <<>> /\ out[Len(out)] # DotDot
                  THEN CleanSegs(t, SubSeq(out, 1, Len(out) - 1), rooted)
                  ELSE IF rooted THEN CleanSegs(t, out, rooted)
                  ELSE CleanSegs(t, Append(out, s), rooted)
             ELSE CleanSegs(t, Append(out, s), rooted)

\* filepath.Clean: purely lexical, follows no link
Clean(p) ==
    IF p = <<>> THEN Dot
    ELSE LET rooted == IsAbs(p)
             segs   == CleanSegs(Split(p), <<>>, rooted)
         IN  IF rooted THEN PathOf(segs)
             ELSE IF segs = <<>> THEN Dot ELSE JoinSegs(segs)

\* the working directory of the process
Getwd == Slash

\* filepath.Abs: an absolute path is only cleaned
Abs(p) ==
    IF IsAbs(p) THEN [path |-> Clean(p), err |-> FALSE]
    ELSE [path |-> Clean(Getwd \o Slash \o p), err |-> FALSE]

----------------------------------------------------------------------------
(* Server configuration *)

\* the directory argument of the command line
DirArg == <<"/", "r">>

prepareDirectory(dir) ==
    LET d0 == IF dir = Dot THEN dir \o Slash ELSE dir
        d1 == Abs(d0).path
    IN  IF ~HasSuffix(d1, Slash) THEN d1 \o Slash ELSE d1

RootString == prepareDirectory(DirArg)

----------------------------------------------------------------------------
(* The filesystem *)

OK      == "ok"
ENOENT  == "no such file or directory"
EACCES  == "permission denied"
ELOOP   == "too many levels of symbolic links"
ENOTDIR == "not a directory"
EISDIR  == "is a directory"

DirNode          == [kind |-> "dir",  data |-> <<>>, target |-> <<>>, readable |-> TRUE]
FileNode(d, r)   == [kind |-> "file", data |-> d,    target |-> <<>>, readable |-> r]
LinkNode(t)      == [kind |-> "link", data |-> <<>>, target |-> t,    readable |-> TRUE]

Parent(segs) == IF segs = <<>> THEN segs ELSE SubSeq(segs, 1, Len(segs) - 1)

\* Path resolution as the kernel does it: cur is the real directory reached,
\* rest the segments still to walk, fuel the links that may still be followed.
RECURSIVE Walk(_, _, _, _)
Walk(f, cur, rest, fuel) ==
    IF rest = <<>> THEN [err |-> OK, real |-> cur]
    ELSE LET s == Head(rest)
             t == Tail(rest)
         IN  IF s = <<>> \/ s = Dot THEN Walk(f, cur, t, fuel)
             ELSE IF s = DotDot THEN Walk(f, Parent(cur), t, fuel)
             ELSE LET nxt == Append(cur, s)
                      k   == PathOf(nxt)
                  IN  IF k \notin DOMAIN f THEN [err |-> ENOENT, real |-> <<>>]
                      ELSE IF f[k].kind = "link"
                      THEN IF fuel = 0 THEN [err |-> ELOOP, real |-> <<>>]
                           ELSE Walk(f,
                                     IF IsAbs(f[k].target) THEN <<>> ELSE cur,
                                     Split(f[k].target) \o t,
                                     fuel - 1)
                      ELSE IF f[k].kind = "file" /\ t # <<>>
                      THEN [err |-> ENOTDIR, real |-> <<>>]
                      ELSE Walk(f, nxt, t, fuel)

\* os.Open: follows every link, fails on a missing or unreadable file;
\* a directory opens.  The result is the error, OK when there is none.
Open(f, p) ==
    LET w == Walk(f, <<>>, Split(p), MaxLinks)
    IN  IF w.err # OK THEN w.err
        ELSE IF ~f[PathOf(w.real)].readable THEN EACCES
        ELSE OK

\* strings.Contains(err.Error(), "no such file")
IsNoSuchFile(e) == e = ENOENT

\* filepath.EvalSymlinks: the path with every link replaced by its target
EvalSymlinks(f, p) ==
    LET w == Walk(f, <<>>, Split(p), MaxLinks)
    IN  IF w.err # OK THEN [path |-> <<>>, err |-> w.err]
        ELSE [path |-> Clean(PathOf(w.real)), err |-> OK]

\* ioutil.ReadFile: open, then read to the end; a directory cannot be read
ReadFile(f, p) ==
    LET e == Open(f, p)
    IN  IF e # OK THEN [data |-> <<>>, err |-> e]
        ELSE LET n == f[PathOf(Walk(f, <<>>, Split(p), MaxLinks).real)]
             IN  IF n.kind = "dir" THEN [data |-> <<>>, err |-> EISDIR]
                 ELSE [data |-> n.data, err |-> OK]

fileisgood(f, a) ==
    IF a = <<>> THEN FALSE
    ELSE LET r0 == IF ~IsAbs(a) THEN Abs(a) ELSE [path |-> a, err |-> FALSE]
         IN  IF r0.err THEN FALSE
             ELSE LET realpath == EvalSymlinks(f, r0.path)
                  IN  IF realpath.err # OK THEN FALSE
                      ELSE realpath.path = r0.path

----------------------------------------------------------------------------
(* Contents and the collaborators that look at them *)

PlainBytes  == <<"#", "x">>
HtmlBytes   == <<"<", "p", ">", "x">>
BinBytes    == <<"NUL", "x">>
PageBytes   == <<"<", "p", ">", "h">>
IndexBytes  == <<"#", "i">>
SecretBytes == <<"#", "s">>

\* http.DetectContentType: an HTML tag signature, else binary bytes, else text
DetectContentType(data) ==
    IF HasPrefix(data, <<"<", "p", ">">>) \/ HasPrefix(data, <<"<", "p", " ">>)
    THEN <<"text/html", "; charset=utf-8">>
    ELSE IF \E i \in 1..Len(data) : data[i] = "NUL"
    THEN <<"application/octet-stream">>
    ELSE <<"text/plain", "; charset=utf-8">>

\* blackfriday.MarkdownCommon: opaque, its output is never its input
MarkdownCommon(data) == <<"<rendered>">> \o data \o <<"</rendered>">>

----------------------------------------------------------------------------
(* The served tree and the states it can be in *)

P_root  == Slash
P_r     == <<"/", "r">>
P_amd   == <<"/", "r", "/", "a", ".", "m", "d">>
P_ahtml == <<"/", "r", "/", "a", ".", "h", "t", "m", "l">>
P_index == <<"/", "r", "/">> \o IndexMd
P_d     == <<"/", "r", "/", "d">>
P_dindex == <<"/", "r", "/", "d", "/">> \o IndexMd
P_l     == <<"/", "r", "/", "l">>
P_o     == <<"/", "o">>
P_oamd  == <<"/", "o", "/", "a", ".", "m", "d">>

\* everything but /r/a.md; /r/l is a link to a directory outside the root
FixedFS ==
    (P_root :> DirNode) @@ (P_r :> DirNode)
    @@ (P_ahtml :> FileNode(PageBytes, TRUE))
    @@ (P_index :> FileNode(IndexBytes, TRUE))
    @@ (P_d :> DirNode) @@ (P_dindex :> FileNode(IndexBytes, TRUE))
    @@ (P_l :> LinkNode(P_o))
    @@ (P_o :> DirNode) @@ (P_oamd :> FileNode(SecretBytes, TRUE))

\* what /r/a.md can be
AmdNodes ==
    { FileNode(PlainBytes, TRUE), FileNode(HtmlBytes, TRUE),
      FileNode(BinBytes, TRUE), FileNode(PlainBytes, FALSE),
      LinkNode(P_oamd), LinkNode(<<"a", ".", "m", "d">>) }

FileSystems == {FixedFS} \cup { (P_amd :> n) @@ FixedFS : n \in AmdNodes }

InitialFS == (P_amd :> FileNode(PlainBytes, TRUE)) @@ FixedFS

----------------------------------------------------------------------------
(* The requests *)

Methods == {"GET", "POST"}

SegNames ==
    { DotDot, Dot, <<"d">>, <<"l">>,
      <<"a", ".", "m", "d">>, <<"a", ".", "h", "t", "m", "l">> }

SegLists == UNION { [1..n -> SegNames] : n \in 0..MaxSegs }

\* the empty path, "*", and every list of segments after a leading slash,
\* with or without a trailing slash
UrlPaths ==
    { <<>>, <<"*">> }
    \cup { Slash \o JoinSegs(ss) \o trail :
             ss \in SegLists, trail \in {<<>>, Slash} }

Queries == { <<>>, <<"r", "a", "w", "=", "1">> }

\* a Range: bytes=0-0 header, or an If-Modified-Since header with a date that
\* is not before the file's modification time
ReqHeaders == { "Range", "If-Modified-Since" }

\* query string and header of a request
Shapes ==
    { <<q, "">> : q \in Queries } \cup { <<<<>>, h>> : h \in ReqHeaders }

----------------------------------------------------------------------------
(* Responses *)

StatusOK                  == 200
StatusNotFound            == 404

NotFoundBody == <<"404 page not found\n">>

NoResp == [written |-> FALSE, status |-> 0, body |-> <<>>, header |-> {}]

\* http.Error(w, text, code)
Error(h, text, code) ==
    [written |-> TRUE, status |-> code, body |-> <<text>>,
     header |-> h \cup { <<"Content-Type", "text/plain; charset=utf-8">>,
                         <<"X-Content-Type-Options", "nosniff">> }]

\* http.NotFound(w, r): http.Error with status 404 and its fixed text
NotFound(h) == Error(h, NotFoundBody[1], StatusNotFound)

\* w.Write(data) with no WriteHeader before it: status 200
Write(h, data) ==
    [written |-> TRUE, status |-> StatusOK, body |-> data, header |-> h]

\* containsDotDot of net/http: some element of the URL path is ".."
containsDotDot(v) ==
    \E i \in DOMAIN Split(v) : Split(v)[i] = DotDot

\* serveContent of net/http: conditional and range requests, else the bytes
serveContent(h, rh, data) ==
    LET hs == h \cup { <<"Content-Type", "inferred by http.ServeFile">> }
    IN  IF rh = "If-Modified-Since"
        THEN [written |-> TRUE, status |-> 304, body |-> <<>>, header |-> h]
        ELSE IF rh = "Range"
        THEN IF Len(data) = 0
             THEN Error(h, "invalid range: failed to overlap\n", 416)
             ELSE [written |-> TRUE, status |-> 206,
                   body |-> SubSeq(data, 1, 1), header |-> hs]
        ELSE [written |-> TRUE, status |-> StatusOK, body |-> data,
              header |-> hs]

\* http.ServeFile(w, r, name): refuses a URL path with a ".." element,
\* redirects a URL path ending in /index.html, then opens name again
ServeFile(h, f, u, rh, name) ==
    IF containsDotDot(u) THEN Error(h, "invalid URL path\n", 400)
    ELSE IF HasSuffix(u, Slash \o <<"i", "n", "d", "e", "x">> \o ExtHtml)
    THEN [written |-> TRUE, status |-> 301, body |-> <<>>,
          header |-> h \cup { <<"Location", "./">> }]
    ELSE LET e == Open(f, name)
         IN  IF e \in {ENOENT, ENOTDIR} THEN Error(h, NotFoundBody[1], 404)
             ELSE IF e = EACCES THEN Error(h, "403 Forbidden\n", 403)
             ELSE IF e # OK THEN Error(h, "500 Internal Server Error\n", 500)
             ELSE LET n   == f[PathOf(Walk(f, <<>>, Split(name), MaxLinks).real)]
                      idx == name \o Slash \o <<"i", "n", "d", "e", "x">> \o ExtHtml
                  IN  IF n.kind # "dir" THEN serveContent(h, rh, n.data)
                      ELSE IF ReadFile(f, idx).err = OK
                      THEN serveContent(h, rh, ReadFile(f, idx).data)
                      ELSE [written |-> TRUE, status |-> StatusOK,
                            body |-> <<"<pre>", "</pre>\n">>,
                            header |-> h \cup { <<"Content-Type",
                                                  "text/html; charset=utf-8">> }]

\* some component of the clean absolute path p is a symbolic link
HasSymlinkComponent(f, p) ==
    LET segs == CleanSegs(Split(p), <<>>, TRUE)
    IN  \E n \in 1..Len(segs) :
            /\ PathOf(SubSeq(segs, 1, n)) \in DOMAIN f
            /\ f[PathOf(SubSeq(segs, 1, n))].kind = "link"

\* one operation on a path: its result, and whether it met a symbolic link
Op(o, p, r, l) == [op |-> o, path |-> p, ok |-> r, link |-> l]

\* the operations that touch the filesystem
FsOps == {"Open", "EvalSymlinks", "ReadFile", "ServeFile"}

----------------------------------------------------------------------------
(* Server.ServeHTTP, one step per block *)

Init ==
    /\ fs = InitialFS
    /\ pc = "idle"
    /\ method = ""
    /\ urlPath = <<>>
    /\ rawQuery = <<>>
    /\ reqHeader = ""
    /\ abs = <<>>
    /\ b = <<>>
    /\ header = {}
    /\ resp = NoResp
    /\ cause = "none"
    /\ branch = "none"
    /\ trace = <<>>
    /\ changed = FALSE

\* the host HTTP server hands a request to the handler
Request ==
    /\ pc = "idle"
    /\ \E m \in Methods, u \in UrlPaths, sh \in Shapes :
          /\ method' = m
          /\ urlPath' = u
          /\ rawQuery' = sh[1]
          /\ reqHeader' = sh[2]
    /\ pc' = "method"
    /\ UNCHANGED <<fs, abs, b, header, resp, cause, branch, trace, changed>>

\* a rejection: http.NotFound and return
Reject(c) ==
    /\ resp' = NotFound(header)
    /\ cause' = c
    /\ pc' = "done"

\* a plausible slip: the ".." test is made after the root has been prepended
\* and the path cleaned, where no "../" is left
CheckDotDotLate ==
    /\ pc = "dotdot"
    /\ IF Len(urlPath) >= 1 /\ Contains(Abs(RootString \o Tail(urlPath)).path,
                                        DotDotSlash)
       THEN Reject("dotdot")
       ELSE /\ pc' = "normalize"
            /\ UNCHANGED <<resp, cause>>
    /\ UNCHANGED <<fs, method, urlPath, rawQuery, reqHeader, abs, b, header,
                   branch, trace, changed>>

\* lines 141-146
CheckMethod ==
    /\ pc = "method"
    /\ IF method # "GET"
       THEN Reject("method")
       ELSE /\ pc' = "dotdot"
            /\ UNCHANGED <<resp, cause>>
    /\ UNCHANGED <<fs, method, urlPath, rawQuery, reqHeader, abs, b, header,
                   branch, trace, changed>>

\* lines 148-153
CheckDotDot ==
    /\ pc = "dotdot"
    /\ IF Contains(urlPath, DotDotSlash)
       THEN Reject("dotdot")
       ELSE /\ pc' = "normalize"
            /\ UNCHANGED <<resp, cause>>
    /\ UNCHANGED <<fs, method, urlPath, rawQuery, reqHeader, abs, b, header,
                   branch, trace, changed>>

\* lines 166-179: the path under the root, not yet cleaned
RootedPath(u) ==
    LET a0 == SubSeq(u, 2, Len(u))
        a1 == IF a0 = <<>> THEN indexPage ELSE a0
        a2 == IF HasSuffix(a1, Slash) THEN a1 \o IndexMd ELSE a1
    IN  RootString \o a2

\* lines 155-185: the two headers, then r.URL.Path[1:], which panics on the
\* empty path (slice bounds out of range)
Normalize ==
    /\ pc = "normalize"
    /\ header' = header \cup { <<"Server", serverheader>>,
                               <<"X-Frame-Options", "DENY">> }
    /\ IF Len(urlPath) < 1
       THEN /\ pc' = "panic"
            /\ UNCHANGED abs
       ELSE /\ abs' = RootedPath(urlPath)
            /\ pc' = "resolve"
    /\ UNCHANGED <<fs, method, urlPath, rawQuery, reqHeader, b, resp, cause,
                   branch, trace, changed>>

\* lines 187-193
ResolveAbs ==
    /\ pc = "resolve"
    /\ LET r == Abs(abs)
       IN  IF r.err
           THEN /\ Reject("abs")
                /\ UNCHANGED abs
           ELSE /\ abs' = r.path
                /\ pc' = "probe"
                /\ UNCHANGED <<resp, cause>>
    /\ UNCHANGED <<fs, method, urlPath, rawQuery, reqHeader, b, header, branch,
                   trace, changed>>

\* a plausible slip: the .md sibling is never substituted
HtmlProbeNone ==
    /\ pc = "probe"
    /\ pc' = "exists"
    /\ UNCHANGED <<fs, method, urlPath, rawQuery, reqHeader, abs, b, header,
                   resp, cause, branch, trace, changed>>

\* lines 195-203
HtmlProbe ==
    /\ pc = "probe"
    /\ IF HasSuffix(abs, ExtHtml)
       THEN LET trymd == TrimSuffix(abs, ExtHtml) \o ExtMd
                err   == Open(fs, trymd)
            IN  /\ trace' = Append(trace, Op("Open", trymd, err = OK,
                                             HasSymlinkComponent(fs, trymd)))
                /\ abs' = IF err = OK THEN trymd ELSE abs
       ELSE UNCHANGED <<abs, trace>>
    /\ pc' = "exists"
    /\ UNCHANGED <<fs, method, urlPath, rawQuery, reqHeader, b, header, resp,
                   cause, branch, changed>>

\* lines 207-220
CheckExists ==
    /\ pc = "exists"
    /\ LET err == Open(fs, abs)
       IN  /\ trace' = Append(trace, Op("Open", abs, err = OK,
                                        HasSymlinkComponent(fs, abs)))
           /\ IF err # OK
              THEN IF IsNoSuchFile(err) THEN Reject("missing")
                   ELSE Reject("openerr")
              ELSE /\ pc' = "symlink"
                   /\ UNCHANGED <<resp, cause>>
    /\ UNCHANGED <<fs, method, urlPath, rawQuery, reqHeader, abs, b, header,
                   branch, changed>>

\* a plausible slip: the result of the symlink check is ignored
CheckSymlinkIgnored ==
    /\ pc = "symlink"
    /\ trace' = Append(trace, Op("EvalSymlinks", abs, fileisgood(fs, abs),
                                 HasSymlinkComponent(fs, abs)))
    /\ pc' = "prefix"
    /\ UNCHANGED <<fs, method, urlPath, rawQuery, reqHeader, abs, b, header,
                   resp, cause, branch, changed>>

\* lines 222-227
CheckSymlink ==
    /\ pc = "symlink"
    /\ LET good == fileisgood(fs, abs)
       IN  /\ trace' = Append(trace, Op("EvalSymlinks", abs, good,
                                        HasSymlinkComponent(fs, abs)))
           /\ IF ~good
              THEN Reject("symlink")
              ELSE /\ pc' = "prefix"
                   /\ UNCHANGED <<resp, cause>>
    /\ UNCHANGED <<fs, method, urlPath, rawQuery, reqHeader, abs, b, header,
                   branch, changed>>

\* lines 229-236
CheckPrefix ==
    /\ pc = "prefix"
    /\ LET has == HasPrefix(abs, RootString)
       IN  /\ trace' = Append(trace, Op("HasPrefix", abs, has, FALSE))
           /\ IF ~has
              THEN Reject("prefix")
              ELSE /\ pc' = "read"
                   /\ UNCHANGED <<resp, cause>>
    /\ UNCHANGED <<fs, method, urlPath, rawQuery, reqHeader, abs, b, header,
                   branch, changed>>

\* lines 238-244
Read ==
    /\ pc = "read"
    /\ LET r == ReadFile(fs, abs)
       IN  /\ trace' = Append(trace, Op("ReadFile", abs, r.err = OK,
                                        HasSymlinkComponent(fs, abs)))
           /\ IF r.err # OK
              THEN /\ Reject("read")
                   /\ UNCHANGED b
              ELSE /\ b' = r.data
                   /\ pc' = "dispatch"
                   /\ UNCHANGED <<resp, cause>>
    /\ UNCHANGED <<fs, method, urlPath, rawQuery, reqHeader, abs, header,
                   branch, changed>>

\* a plausible slip: the query string is not looked at
BranchOfNoRaw(a, ct, q) ==
    IF HasSuffix(a, ExtHtml) \/ HasPrefix(ct, TextHtml) THEN "rawhtml"
    ELSE IF HasSuffix(a, ExtMd) /\ HasPrefix(ct, TextPlain) THEN "markdown"
    ELSE "servefile"

\* lines 249-273: which branch answers, first match wins
BranchOf(a, ct, q) ==
    IF HasSuffix(a, ExtHtml) \/ HasPrefix(ct, TextHtml) THEN "rawhtml"
    ELSE IF HasSuffix(a, ExtMd) /\ HasPrefix(ct, TextPlain)
    THEN IF Contains(q, RawWord) THEN "rawmd" ELSE "markdown"
    ELSE "servefile"

\* lines 246-273
Dispatch ==
    /\ pc = "dispatch"
    /\ LET ct == DetectContentType(b)
           br == BranchOf(abs, ct, rawQuery)
       IN  /\ branch' = br
           /\ IF br = "rawhtml"
              THEN /\ header' = header \cup { <<"Content-Type", "text/html">> }
                   /\ resp' = Write(header', b)
                   /\ UNCHANGED trace
              ELSE IF br = "rawmd"
              THEN /\ resp' = Write(header, b)
                   /\ UNCHANGED <<header, trace>>
              ELSE IF br = "markdown"
              THEN /\ resp' = Write(header, MarkdownCommon(b))
                   /\ UNCHANGED <<header, trace>>
              ELSE /\ resp' = ServeFile(header, fs, urlPath, reqHeader, abs)
                   /\ trace' = Append(trace,
                                      Op("ServeFile", abs,
                                         resp'.status \in {200, 206, 304},
                                         HasSymlinkComponent(fs, abs)))
                   /\ UNCHANGED header
    /\ pc' = "done"
    /\ UNCHANGED <<fs, method, urlPath, rawQuery, reqHeader, abs, b, cause,
                   changed>>

\* the handler has returned (or net/http has recovered its panic and dropped
\* the connection): the request's values are discarded
Finish ==
    /\ pc \in {"done", "panic"}
    /\ pc' = "idle"
    /\ method' = ""
    /\ urlPath' = <<>>
    /\ rawQuery' = <<>>
    /\ reqHeader' = ""
    /\ abs' = <<>>
    /\ b' = <<>>
    /\ header' = {}
    /\ resp' = NoResp
    /\ cause' = "none"
    /\ branch' = "none"
    /\ trace' = <<>>
    /\ changed' = FALSE
    /\ UNCHANGED fs

\* the served tree changes, at any moment: /r/a.md is replaced
FsChange ==
    /\ \E f \in FileSystems \ {fs} : fs' = f
    /\ changed' = (pc # "idle")
    /\ UNCHANGED <<pc, method, urlPath, rawQuery, reqHeader, abs, b, header,
                   resp, cause, branch, trace>>

Next ==
    \/ Request
    \/ CheckMethod
    \/ CheckDotDot
    \/ Normalize
    \/ ResolveAbs
    \/ HtmlProbe
    \/ CheckExists
    \/ CheckSymlink
    \/ CheckPrefix
    \/ Read
    \/ Dispatch
    \/ Finish
    \/ FsChange

Spec == Init /\ [][Next]_vars

----------------------------------------------------------------------------
(* Vocabulary of the properties *)

ReadOps == {"ReadFile", "ServeFile"}

\* operation i of the request was preceded by a passed check o of its path
Passed(i, o) ==
    \E j \in 1..(i - 1) :
        /\ trace[j].op = o
        /\ trace[j].path = trace[i].path
        /\ trace[j].ok

NoRead == \A i \in DOMAIN trace : trace[i].op \notin ReadOps

\* some bytes of a file were read or served
ContentsRead ==
    \E i \in DOMAIN trace : trace[i].op \in ReadOps /\ trace[i].ok

IsNotFound(r) ==
    r.written /\ r.status = StatusNotFound /\ r.body = NotFoundBody

\* p exists and passes the symlink check and the root-prefix check
SafeFile(f, p) ==
    Open(f, p) = OK /\ fileisgood(f, p) /\ HasPrefix(p, RootString)

\* the canonical path a URL path stands for
CanonicalOf(u) == Abs(RootedPath(u)).path

\* the .md sibling of the canonical path of a .html URL path
SiblingOf(u) == TrimSuffix(CanonicalOf(u), ExtHtml) \o ExtMd

WantsRaw == Contains(rawQuery, RawWord)

HandlerSetContentType == \E h \in header : h[1] = "Content-Type"

\* a finished request during which the tree stayed as it is now
Stable == pc = "done" /\ ~changed

\* such a request that is plain (no Range, no If-Modified-Since)
Settled == Stable /\ reqHeader = ""

----------------------------------------------------------------------------
(* C1 *)

\* C1: contents are read (ReadFile) or handed to http.ServeFile only for the
\* final serve path and only after that path passed fileisgood and the
\* rootPath prefix check in the same request; when either check fails the
\* request ends not-found and nothing is read.
C1_ReadOnlyAfterBothChecks ==
    /\ \A i \in DOMAIN trace :
          trace[i].op \in ReadOps =>
              /\ trace[i].path = abs
              /\ Passed(i, "EvalSymlinks")
              /\ Passed(i, "HasPrefix")
    /\ (\E i \in DOMAIN trace :
            trace[i].op \in {"EvalSymlinks", "HasPrefix"} /\ ~trace[i].ok) =>
          /\ NoRead
          /\ b = <<>>
          /\ pc = "done"
          /\ IsNotFound(resp)

\* a .html request was substituted by its .md sibling and its bytes were read
C1_Witness ==
    /\ pc = "done"
    /\ HasSuffix(urlPath, ExtHtml)
    /\ HasSuffix(abs, ExtMd)
    /\ \E i \in DOMAIN trace : trace[i].op = "ReadFile" /\ trace[i].ok

----------------------------------------------------------------------------
(* C2 *)

\* C2: a GET whose URL path contains "../" anywhere is answered not-found
\* and performs no filesystem operation at all.
C2_DotDotSlashTouchesNothing ==
    (method = "GET" /\ Contains(urlPath, DotDotSlash)) =>
        /\ trace = <<>>
        /\ b = <<>>
        /\ pc # "panic"
        /\ pc = "done" => IsNotFound(resp)

\* a rejected "../" path whose cleaned form names a servable file
C2_Witness ==
    /\ pc = "done"
    /\ method = "GET"
    /\ Contains(urlPath, DotDotSlash)
    /\ cause = "dotdot"
    /\ SafeFile(fs, CanonicalOf(urlPath))
    /\ ReadFile(fs, CanonicalOf(urlPath)).err = OK

----------------------------------------------------------------------------
(* C3 *)

\* C3: a request whose final serve path has a symbolic link at any
\* component, or does not resolve, is answered not-found and nothing of it
\* is read, even if the link leads to a readable file.
C3_SymlinkAnywhereRejected ==
    (/\ pc = "done"
     /\ \E i \in DOMAIN trace :
           /\ trace[i].op \in FsOps
           /\ trace[i].path = abs
           /\ trace[i].link \/ (trace[i].op = "EvalSymlinks" /\ ~trace[i].ok)) =>
        /\ IsNotFound(resp)
        /\ ~ContentsRead

----------------------------------------------------------------------------
(* C4 *)

\* C4: every rejected request, whatever the cause, gets the status and the
\* body of the answer to a GET of a missing file.  (Read in the claim's
\* favour: a plain request, the tree unchanged while it is served.)
C4_UniformNotFound ==
    (Settled /\ resp.written /\ resp.status >= 400) => IsNotFound(resp)

----------------------------------------------------------------------------
(* C5 *)

\* C5: every response written carries the Server header and
\* X-Frame-Options: DENY.
C5_HeadersOnEveryResponse ==
    resp.written =>
        /\ <<"Server", serverheader>> \in resp.header
        /\ <<"X-Frame-Options", "DENY">> \in resp.header

----------------------------------------------------------------------------
(* C6 *)

\* C6: for every GET and every raw URL path, the empty one included, the
\* handler completes with a response; nothing escapes as a panic.
C6_NoPanic == pc # "panic"

----------------------------------------------------------------------------
(* C7 *)

\* C7 as stated: a GET of a path ending in .html, without raw in the query,
\* whose .md sibling exists and passes the safety checks, is answered with
\* the rendered markdown of the sibling, whatever its classification.  (Read
\* in the claim's favour: only plain requests that pass the "../" guard, with
\* the tree unchanged while they are served.)
C7_AsStated ==
    (/\ Settled
     /\ method = "GET"
     /\ HasSuffix(urlPath, ExtHtml)
     /\ ~Contains(urlPath, DotDotSlash)
     /\ ~WantsRaw
     /\ SafeFile(fs, SiblingOf(urlPath))) =>
        /\ resp.written
        /\ resp.body = MarkdownCommon(ReadFile(fs, SiblingOf(urlPath)).data)

\* C7 amended: such a request that passes the "../" guard, the tree not
\* changing while it is served, reads the .md sibling and never the .html
\* file; its body is the rendered markdown of the sibling's bytes when those
\* bytes classify as text/plain.
C7_HtmlServesSibling ==
    (/\ Stable
     /\ method = "GET"
     /\ HasSuffix(urlPath, ExtHtml)
     /\ HasSuffix(CanonicalOf(urlPath), ExtHtml)
     /\ ~Contains(urlPath, DotDotSlash)
     /\ ~WantsRaw
     /\ SafeFile(fs, SiblingOf(urlPath))) =>
        LET sib == SiblingOf(urlPath)
            r   == ReadFile(fs, sib)
        IN  /\ abs = sib
            /\ \A i \in DOMAIN trace :
                  trace[i].op \in ReadOps => trace[i].path = sib
            /\ (r.err = OK /\ HasPrefix(DetectContentType(r.data), TextPlain)) =>
                  /\ branch = "markdown"
                  /\ resp.status = StatusOK
                  /\ resp.body = MarkdownCommon(r.data)

\* /r/a.html exists, and the request for it got the rendering of /r/a.md
C7_Witness ==
    /\ Settled
    /\ HasSuffix(urlPath, ExtHtml)
    /\ CanonicalOf(urlPath) \in DOMAIN fs
    /\ branch = "markdown"
    /\ resp.body = MarkdownCommon(PlainBytes)

----------------------------------------------------------------------------
(* C8 *)

\* C8 as stated: for an existing, safe file whose path ends in .md, raw in
\* the query gives the file's bytes and no raw gives their rendering.  (Read
\* in the claim's favour: a plain request, the tree unchanged while it is
\* served.)
C8_AsStated ==
    (/\ Settled
     /\ method = "GET"
     /\ abs # <<>>
     /\ HasSuffix(abs, ExtMd)
     /\ SafeFile(fs, abs)
     /\ ReadFile(fs, abs).err = OK) =>
        /\ resp.written
        /\ resp.body = IF WantsRaw THEN ReadFile(fs, abs).data
                       ELSE MarkdownCommon(ReadFile(fs, abs).data)

\* C8 amended: the same, for a file that does not change while the request
\* is served and whose bytes classify as text/plain; bytes that classify as
\* text/html are written unmodified by the raw-HTML branch, which comes
\* first, and anything else goes to the static fallback.
C8_MdDispatch ==
    (/\ Stable
     /\ method = "GET"
     /\ abs # <<>>
     /\ HasSuffix(abs, ExtMd)
     /\ SafeFile(fs, abs)
     /\ ReadFile(fs, abs).err = OK) =>
        LET data == ReadFile(fs, abs).data
            ct   == DetectContentType(data)
        IN  /\ resp.written
            /\ HasPrefix(ct, TextHtml) =>
                  branch = "rawhtml" /\ resp.status = StatusOK /\ resp.body = data
            /\ (HasPrefix(ct, TextPlain) /\ WantsRaw) =>
                  branch = "rawmd" /\ resp.status = StatusOK /\ resp.body = data
            /\ (HasPrefix(ct, TextPlain) /\ ~WantsRaw) =>
                  /\ branch = "markdown"
                  /\ resp.status = StatusOK
                  /\ resp.body = MarkdownCommon(data)
            /\ (~HasPrefix(ct, TextHtml) /\ ~HasPrefix(ct, TextPlain)) =>
                  branch = "servefile"

\* the raw source of /r/a.md was delivered
C8_Witness ==
    /\ Settled
    /\ WantsRaw
    /\ abs = P_amd
    /\ branch = "rawmd"
    /\ resp.body = PlainBytes

----------------------------------------------------------------------------
(* C9 *)

\* C9: the handler itself sets Content-Type in exactly the raw-HTML branch
\* and the rendered-markdown branch.
C9_ContentTypeInTwoBranches ==
    (pc = "done" /\ branch # "none") =>
        (HandlerSetContentType <=> branch \in {"rawhtml", "markdown"})

----------------------------------------------------------------------------
(* C10 *)

\* C10: the root-prefix check comes before the sibling probe, the existence
\* open and the symlink resolution, so no filesystem operation is performed
\* on a path that lacks the rootPath prefix.
C10_NoFsOpOutsideRoot ==
    \A i \in DOMAIN trace :
        trace[i].op \in FsOps => HasPrefix(trace[i].path, RootString)

====
